---- MODULE Spec2Model ----
(***************************************************************************)
(* Model of the stm-datastructures crate: Queue, BoundedQueue and Stack    *)
(* built from transactional variables (TVar) holding persistent lists.     *)
(*                                                                         *)
(* A list Elem(x, xs) / End is a sequence with its head first.  The        *)
(* transactional substrate (crate `stm`) is modelled by its contract: a    *)
(* transaction keeps a log of the cells it read (value and version) and    *)
(* of the values it wrote; commit validates the read versions and then     *)
(* publishes the writes; retry suspends the transaction until a cell of    *)
(* its read set has changed.                                               *)
(***************************************************************************)
EXTENDS Integers, Sequences, FiniteSets, TLC

\* ------------------------------------------------------------------ bounds
\* Threads running transactions, and the operations their transaction
\* functions hold in all, per specification.
NThreads == 2
FifoOps == 5
QueueOps == 3
BoundedOps == 3
OptOps == 4
StackOps == 5
SemOps == 4
\* Largest capacity a BoundedQueue is created with.
MaxCap == 2

\* Largest count a Semaphore is created with.
MaxSem == 2
MaxChain == 6
\* Producer threads of the threaded tests.
NProd == 3

\* Values sent through the queue by the benchmarks (1000 in the code).
BenchN == 4

Threads == 1..NThreads

\* The threaded tests: thread 0 pops, the threads 1..NProd push one value each.
Consumer == 0

Producers == 1..NProd

Workers == {Consumer} \cup Producers

\* The two threads of `fork`: the receiving one and the sending one.
Sender == Consumer + 1

Pair == {Consumer, Sender}

\* Thread t pushes the values t * Stride, t * Stride + 1, ...: all are distinct.
Stride == 10

\* ------------------------------------------------------------------- state
VARIABLES
    tvar,      \* committed content of every transactional cell: [val, ver]
    pc,        \* per thread: "idle", "run", "blocked", "done", "panicked"
    prog,      \* per thread: the operations of its transaction function
    ip,        \* per thread: index of the next operation to execute
    log,       \* per thread: the transaction log [rd, wr]
    rets,      \* per thread: values returned by the operations executed so far
    opCount,   \* number of operations the transaction functions hold so far
    nextVal,   \* per thread: the next fresh value it hands to a push
    pushed,    \* history: values of the committed pushes, in commit order
    popped,    \* history: values returned by the committed pops, in commit order
    fin,       \* per thread: the whole transaction function is known
    param,     \* what the run was set up with: [capacity, maxOps, kind, pops]
    sem,       \* history of the semaphore: [init, signals, waits], committed
    heap,      \* the Arc-allocated nodes of a list under test and its owners
    hist       \* history of the committed transactions: [back, reversed]

vars == <<tvar, pc, prog, ip, log, rets, opCount, nextVal, pushed, popped,
          fin, param, sem, heap, hist>>

\* The cells: Queue {read, write}, BoundedQueue {queue: Queue, cap}, Stack {stack},
\* Semaphore {num}.
Cells == {"q_read", "q_write", "bq_read", "bq_write", "bq_cap", "st_stack", "sem_num"}

\* ------------------------------------------------------------ ArcList (Prim)
End == <<>>

Elem(x, xs) == <<x>> \o xs

prepend(self, t) == Elem(t, self)

is_empty(self) == self = End

RECURSIVE reverse_loop(_, _)
reverse_loop(ls, new_list) ==
    IF ls = End THEN new_list
    ELSE reverse_loop(Tail(ls), prepend(new_list, Head(ls)))

\* Variant: the list is handed over as it is.
reverse_not(self) == self

reverse(self) == reverse_loop(self, End)

\* ------------------------------------------------------------------ Option
None == <<>>

Some(x) == <<x>>

Unit == <<>>

\* ------------------------------------------------------ unsigned integers
\* A u32 or usize value is held as the integer that has the same bits in
\* two's complement: the values from 0 up are themselves and the values at
\* the top of the range are negative, the largest one (u32::MAX, usize::MAX)
\* being -1.  x + 1 and x - 1 are then the wrapping sum and difference; the
\* sum overflows exactly at MAX and the difference exactly at 0.
MAX == -1

\* a > b
UGt(a, b) == IF (a < 0) = (b < 0) THEN a > b ELSE a < 0

\* b is a + 1 as numbers: the sum did not wrap.
IsSucc(a, b) == a # MAX /\ b = a + 1

\* ------------------------------------------------- transaction log (crate stm)
\* rd is the read set and wr the write buffer; rev is a history, the elements
\* the loop of Prim::reverse went through while the transaction function ran.
EmptyLog == [rd |-> <<>>, wr |-> <<>>, rev |-> <<>>]

\* An operation's outcome: Ok(value) with the log it leaves, or Err(Retry).
Ok(l, v) == [log |-> l, ret |-> v, retry |-> FALSE]

Retry(l) == [log |-> l, ret |-> Unit, retry |-> TRUE]

\* TVar::read: the buffered write, else the value logged by the first read,
\* else the committed value, which joins the read set.
TVarRead(l, c) ==
    IF c \in DOMAIN l.wr THEN Ok(l, l.wr[c])
    ELSE IF c \in DOMAIN l.rd THEN Ok(l, l.rd[c].val)
    ELSE Ok([l EXCEPT !.rd = (c :> tvar[c]) @@ @], tvar[c].val)

\* TVar::write: buffers the value; the cell does not join the read set.
TVarWrite(l, c, v) == [l EXCEPT !.wr = (c :> v) @@ @]

\* retry(): Err(Retry)
retry(l) == Retry(l)

\* The loop of Prim::reverse has gone through the elements of xs.
Reversed(l, xs) == [l EXCEPT !.rev = @ \o xs]

\* Variant: None is unwrapped to a default value.
unwrap_or_default(l, option) ==
    IF option # None THEN Ok(l, option[1]) ELSE Ok(l, 0)

\* unwrap_or_retry
unwrap_or_retry(l, option) ==
    IF option # None THEN Ok(l, option[1]) ELSE retry(l)

\* guard
guard(l, cond) == IF cond THEN Ok(l, Unit) ELSE retry(l)

\* Transaction::or (crate stm): `first` runs on the log; when it ends with
\* Err(Retry) its writes are dropped, `second` runs on the log as it was, and
\* what `first` read stays in the read set.  f and s are the outcomes of
\* `first` and of `second`, each run on the log of the caller.
TransactionOr(f, s) ==
    IF ~f.retry THEN f
    ELSE [s EXCEPT !.log.rd = s.log.rd @@ f.log.rd]

\* f(t).map(Some)
MapSome(r) == IF r.retry THEN r ELSE Ok(r.log, Some(r.ret))

\* Variant: the fallback gives up as well.
OrRetry(l) == retry(l)

\* |_| Ok(None)
OrNone(l) == Ok(l, None)

\* optionally; f is the outcome of the closure run on tx.
optionally(tx, f) == TransactionOr(MapSome(f), OrNone(tx))

\* ------------------------------------------------------------------- Queue
TheQueue == [read |-> "q_read", write |-> "q_write"]

\* Queue::push: write.modify(|end| Elem(value, end))
QueuePush(l, q, value) ==
    LET r == TVarRead(l, q.write)
    IN  Ok(TVarWrite(r.log, q.write, Elem(value, r.ret)), Unit)

\* Variant: push_front adds at the back, like push.
QueuePushFrontAtBack(l, q, value) ==
    LET r == TVarRead(l, q.write)
    IN  Ok(TVarWrite(r.log, q.write, Elem(value, r.ret)), Unit)

\* Queue::push_front: read.modify(|end| Elem(value, end))
QueuePushFront(l, q, value) ==
    LET r == TVarRead(l, q.read)
    IN  Ok(TVarWrite(r.log, q.read, Elem(value, r.ret)), Unit)

\* Variant: try_pop keeps only the head of the reversed back list.
QueueTryPopLosesBack(l, q) ==
    LET r == TVarRead(l, q.read)
    IN  IF r.ret # End
        THEN Ok(TVarWrite(r.log, q.read, Tail(r.ret)), Some(Head(r.ret)))
        ELSE LET w == TVarRead(r.log, q.write)
                 l2 == TVarWrite(w.log, q.write, End)
                 rev == reverse(w.ret)
             IN  IF rev = End
                 THEN Ok(l2, None)
                 ELSE Ok(TVarWrite(l2, q.read, End), Some(Head(rev)))

\* Variant: try_pop looks at the front list only.
QueueTryPopFrontOnly(l, q) ==
    LET r == TVarRead(l, q.read)
    IN  IF r.ret # End
        THEN Ok(TVarWrite(r.log, q.read, Tail(r.ret)), Some(Head(r.ret)))
        ELSE Ok(r.log, None)

\* Variant: try_pop returns the head and leaves it in the list.
QueueTryPopKeeps(l, q) ==
    LET r == TVarRead(l, q.read)
    IN  IF r.ret # End
        THEN Ok(r.log, Some(Head(r.ret)))
        ELSE LET w == TVarRead(r.log, q.write)
                 l2 == TVarWrite(w.log, q.write, End)
                 rev == reverse(w.ret)
             IN  IF rev = End
                 THEN Ok(l2, None)
                 ELSE Ok(TVarWrite(l2, q.read, rev), Some(Head(rev)))

\* Queue::try_pop
QueueTryPop(l, q) ==
    LET r == TVarRead(l, q.read)
    IN  IF r.ret # End
        THEN Ok(TVarWrite(r.log, q.read, Tail(r.ret)), Some(Head(r.ret)))
        ELSE LET w == TVarRead(r.log, q.write)
                 l2 == TVarWrite(Reversed(w.log, w.ret), q.write, End)
                 rev == reverse(w.ret)
             IN  IF rev = End
                 THEN Ok(l2, None)
                 ELSE Ok(TVarWrite(l2, q.read, Tail(rev)), Some(Head(rev)))

\* Variant: pop gives up when the front list is empty, the back list unread.
QueuePopFrontOnly(l, q) ==
    LET r == TVarRead(l, q.read)
    IN  IF r.ret # End
        THEN Ok(TVarWrite(r.log, q.read, Tail(r.ret)), Head(r.ret))
        ELSE retry(r.log)

\* Queue::pop
QueuePop(l, q) ==
    LET r == QueueTryPop(l, q)
    IN  unwrap_or_retry(r.log, r.ret)

\* Queue::try_peek
QueueTryPeek(l, q) ==
    LET v == QueueTryPop(l, q)
    IN  IF v.ret # None
        THEN Ok(QueuePushFront(v.log, q, v.ret[1]).log, v.ret)
        ELSE Ok(v.log, v.ret)

\* Variant: peek forgets to push the value back.
QueuePeekRemoves(l, q) ==
    LET r == QueueTryPop(l, q)
    IN  unwrap_or_retry(r.log, r.ret)

\* Queue::peek
QueuePeek(l, q) ==
    LET v == QueuePop(l, q)
    IN  IF v.retry THEN v
        ELSE Ok(QueuePushFront(v.log, q, v.ret).log, v.ret)

\* Queue::is_empty
QueueIsEmpty(l, q) ==
    LET r == TVarRead(l, q.read)
    IN  IF is_empty(r.ret)
        THEN Ok(r.log, TRUE)
        ELSE LET w == TVarRead(r.log, q.write)
             IN  Ok(w.log, is_empty(w.ret))

\* ------------------------------------------------------------ BoundedQueue
TheBQueue == [queue |-> [read |-> "bq_read", write |-> "bq_write"],
              cap |-> "bq_cap"]

\* Variant: push without the guard on the counter.
BoundedQueuePushUnguarded(l, bq, val) ==
    LET cap == TVarRead(l, bq.cap)
    IN  QueuePush(TVarWrite(cap.log, bq.cap, cap.ret - 1), bq.queue, val)

\* BoundedQueue::push
BoundedQueuePush(l, bq, val) ==
    LET cap == TVarRead(l, bq.cap)
        g == guard(cap.log, UGt(cap.ret, 0))
    IN  IF g.retry THEN g
        ELSE QueuePush(TVarWrite(g.log, bq.cap, cap.ret - 1), bq.queue, val)

\* BoundedQueue::push_front
BoundedQueuePushFront(l, bq, value) ==
    LET cap == TVarRead(l, bq.cap)
        g == guard(cap.log, UGt(cap.ret, 0))
    IN  IF g.retry THEN g
        ELSE QueuePushFront(TVarWrite(g.log, bq.cap, cap.ret - 1), bq.queue, value)

\* BoundedQueue::try_peek
BoundedQueueTryPeek(l, bq) == QueueTryPeek(l, bq.queue)

\* BoundedQueue::peek
BoundedQueuePeek(l, bq) == QueuePeek(l, bq.queue)

\* Variant: try_pop increments the counter first, as pop does.
BoundedQueueTryPopCountsFirst(l, bq) ==
    LET x == TVarRead(l, bq.cap)
    IN  QueueTryPop(TVarWrite(x.log, bq.cap, x.ret + 1), bq.queue)

\* Variant: try_pop leaves the counter alone.
BoundedQueueTryPopUncounted(l, bq) == QueueTryPop(l, bq.queue)

\* BoundedQueue::try_pop
BoundedQueueTryPop(l, bq) ==
    LET v == QueueTryPop(l, bq.queue)
    IN  IF v.ret # None
        THEN LET x == TVarRead(v.log, bq.cap)
             IN  Ok(TVarWrite(x.log, bq.cap, x.ret + 1), v.ret)
        ELSE v

\* Variant: the inner pop runs first, the counter is incremented after it.
BoundedQueuePopThenCount(l, bq) ==
    LET v == QueuePop(l, bq.queue)
    IN  IF v.retry THEN v
        ELSE LET x == TVarRead(v.log, bq.cap)
             IN  Ok(TVarWrite(x.log, bq.cap, x.ret + 1), v.ret)

\* Variant: the pop does not give the capacity back.
BoundedQueuePopUncounted(l, bq) == QueuePop(l, bq.queue)

\* BoundedQueue::pop: the counter is incremented first, then the inner pop runs.
BoundedQueuePop(l, bq) ==
    LET x == TVarRead(l, bq.cap)
    IN  QueuePop(TVarWrite(x.log, bq.cap, x.ret + 1), bq.queue)

\* BoundedQueue::is_empty
BoundedQueueIsEmpty(l, bq) == QueueIsEmpty(l, bq.queue)

\* BoundedQueue::is_full
BoundedQueueIsFull(l, bq) ==
    LET cap == TVarRead(l, bq.cap)
    IN  Ok(cap.log, cap.ret = 0)

\* ------------------------------------------------------------------- Stack
TheStack == [stack |-> "st_stack"]

\* Variant: the value goes under the others.
StackPushUnder(l, st, val) ==
    LET end == TVarRead(l, st.stack)
    IN  Ok(TVarWrite(end.log, st.stack, Append(end.ret, val)), Unit)

\* Stack::push
StackPush(l, st, val) ==
    LET end == TVarRead(l, st.stack)
    IN  Ok(TVarWrite(end.log, st.stack, Elem(val, end.ret)), Unit)

\* Stack::pop
StackPop(l, st) ==
    LET r == TVarRead(l, st.stack)
    IN  IF r.ret = End THEN retry(r.log)
        ELSE Ok(TVarWrite(r.log, st.stack, Tail(r.ret)), Head(r.ret))

\* --------------------------------------------------------------- Semaphore
TheSemaphore == [num |-> "sem_num"]

\* Variant: the wait takes a token whether there is one or not.
SemaphoreWaitUnguarded(l, s) ==
    LET n == TVarRead(l, s.num)
    IN  Ok(TVarWrite(n.log, s.num, n.ret - 1), Unit)

\* Semaphore::wait
SemaphoreWait(l, s) ==
    LET n == TVarRead(l, s.num)
    IN  IF n.ret = 0 THEN retry(n.log)
        ELSE Ok(TVarWrite(n.log, s.num, n.ret - 1), Unit)

\* Variant: the signal frees no token.
SemaphoreSignalNothing(l, s) ==
    LET n == TVarRead(l, s.num)
    IN  Ok(TVarWrite(n.log, s.num, n.ret), Unit)

\* Semaphore::signal
SemaphoreSignal(l, s) ==
    LET n == TVarRead(l, s.num)
    IN  Ok(TVarWrite(n.log, s.num, n.ret + 1), Unit)

\* ------------------------------------------------ transaction functions
\* A transaction function is a straight-line sequence of operations
\* [obj, op, val]; `val` is the argument of a push and 0 otherwise.  prog[t]
\* holds the operations of the function known so far: a function is revealed
\* one operation at a time by its first run and replayed by every later run.
PushOps == {"push", "push_front"}

PopOps == {"pop", "try_pop"}

\* The operations that take a value.
ValueOps == PushOps \cup {"optionally_push"}

\* The values a committed transaction pushed / popped, in program order.
RECURSIVE PushedBy(_, _, _)
PushedBy(p, r, i) ==
    IF i > Len(p) THEN <<>>
    ELSE (IF \/ p[i].op \in PushOps
             \/ p[i].op = "optionally_push" /\ r[i] # None
          THEN <<p[i].val>> ELSE <<>>) \o PushedBy(p, r, i + 1)

\* The values a transaction inserts at the back: those of its push operations.
RECURSIVE PushedAtBack(_, _, _)
PushedAtBack(p, r, i) ==
    IF i > Len(p) THEN <<>>
    ELSE (IF \/ p[i].op = "push"
             \/ p[i].op = "optionally_push" /\ r[i] # None
          THEN <<p[i].val>> ELSE <<>>) \o PushedAtBack(p, r, i + 1)

RECURSIVE PoppedBy(_, _, _)
PoppedBy(p, r, i) ==
    IF i > Len(p) THEN <<>>
    ELSE (CASE p[i].op = "pop" -> <<r[i]>>
            [] p[i].op \in {"try_pop", "optionally_pop"} -> r[i]
            [] OTHER -> <<>>) \o PoppedBy(p, r, i + 1)

\* How many operations `op` a transaction function holds from i on.
RECURSIVE CountOp(_, _, _)
CountOp(p, op, i) ==
    IF i > Len(p) THEN 0
    ELSE (IF p[i].op = op THEN 1 ELSE 0) + CountOp(p, op, i + 1)

\* --------------------------------------------------- atomically (crate stm)
Valid(l) == \A c \in DOMAIN l.rd : tvar[c].ver = l.rd[c].ver

Replaying(t) == ip[t] <= Len(prog[t])

\* Thread t is about to run operation `op` of `obj`: the next operation of
\* its function when that is known, any operation otherwise.
At(t, obj, op) ==
    /\ pc[t] = "run"
    /\ IF Replaying(t)
       THEN prog[t][ip[t]].obj = obj /\ prog[t][ip[t]].op = op
       ELSE ~fin[t] /\ opCount < param.maxOps

\* The argument of a push: the recorded one, or a fresh value.
Arg(t) == IF Replaying(t) THEN prog[t][ip[t]].val ELSE nextVal[t]

\* One operation of the transaction function ran: Ok continues with the next
\* operation, Err(Retry) leaves the function and suspends the transaction.
Exec(t, obj, op, out) ==
    /\ log' = [log EXCEPT ![t] = out.log]
    /\ IF Replaying(t)
       THEN UNCHANGED <<prog, nextVal, opCount>>
       ELSE /\ opCount' = opCount + 1
            /\ prog' = [prog EXCEPT ![t] = Append(@,
                   [obj |-> obj, op |-> op,
                    val |-> IF op \in ValueOps THEN nextVal[t] ELSE 0])]
            /\ nextVal' = IF op \in ValueOps
                          THEN [nextVal EXCEPT ![t] = @ + 1] ELSE nextVal
    /\ IF out.retry
       THEN /\ pc' = [pc EXCEPT ![t] = "blocked"]
            /\ UNCHANGED <<ip, rets>>
       ELSE /\ ip' = [ip EXCEPT ![t] = @ + 1]
            /\ rets' = [rets EXCEPT ![t] = Append(@, out.ret)]
            /\ UNCHANGED pc
    /\ UNCHANGED <<tvar, fin, pushed, popped, param, sem, heap, hist>>

\* atomically starts a transaction function.
Begin(t) ==
    /\ pc[t] = "idle"
    /\ opCount < param.maxOps
    /\ pc' = [pc EXCEPT ![t] = "run"]
    /\ fin' = [fin EXCEPT ![t] = FALSE]
    /\ UNCHANGED <<tvar, prog, ip, log, rets, opCount, nextVal, pushed, popped, param, sem, heap, hist>>

\* The function has returned Ok.
Returned(t) ==
    /\ pc[t] = "run"
    /\ ~Replaying(t)
    /\ prog[t] # <<>>

\* The function returned Ok and every cell it read is unchanged: the writes
\* are published at once.
Commit(t) ==
    /\ Returned(t)
    /\ Valid(log[t])
    /\ tvar' = [c \in Cells |->
                  IF c \in DOMAIN log[t].wr
                  THEN [val |-> log[t].wr[c], ver |-> tvar[c].ver + 1]
                  ELSE tvar[c]]
    /\ pushed' = pushed \o PushedBy(prog[t], rets[t], 1)
    /\ popped' = popped \o PoppedBy(prog[t], rets[t], 1)
    /\ pc' = [pc EXCEPT ![t] = "idle"]
    /\ log' = [log EXCEPT ![t] = EmptyLog]
    /\ prog' = [prog EXCEPT ![t] = <<>>]
    /\ ip' = [ip EXCEPT ![t] = 1]
    /\ rets' = [rets EXCEPT ![t] = <<>>]
    /\ fin' = [fin EXCEPT ![t] = TRUE]
    /\ sem' = [sem EXCEPT !.signals = @ + CountOp(prog[t], "signal", 1),
                           !.waits = @ + CountOp(prog[t], "wait", 1)]
    /\ hist' = [back |-> hist.back \o PushedAtBack(prog[t], rets[t], 1),
                reversed |-> hist.reversed \o log[t].rev]
    /\ UNCHANGED <<opCount, nextVal, param, heap>>

\* The function returned Ok but a cell it read has changed: run it again.
Conflict(t) ==
    /\ Returned(t)
    /\ ~Valid(log[t])
    /\ log' = [log EXCEPT ![t] = EmptyLog]
    /\ ip' = [ip EXCEPT ![t] = 1]
    /\ rets' = [rets EXCEPT ![t] = <<>>]
    /\ fin' = [fin EXCEPT ![t] = TRUE]
    /\ UNCHANGED <<tvar, pc, prog, opCount, nextVal, pushed, popped, param, sem, heap, hist>>

\* The function returned Err(Retry): the thread sleeps until a cell of the
\* read set has changed, then runs the function again.
Wake(t) ==
    /\ pc[t] = "blocked"
    /\ ~Valid(log[t])
    /\ pc' = [pc EXCEPT ![t] = "run"]
    /\ log' = [log EXCEPT ![t] = EmptyLog]
    /\ ip' = [ip EXCEPT ![t] = 1]
    /\ rets' = [rets EXCEPT ![t] = <<>>]
    /\ UNCHANGED <<tvar, prog, fin, opCount, nextVal, pushed, popped, param, sem, heap, hist>>

\* ------------------------------------------------------ operations as steps
Queue_push(t) == At(t, "Queue", "push") /\ Exec(t, "Queue", "push", QueuePush(log[t], TheQueue, Arg(t)))

Queue_push_front(t) ==
    At(t, "Queue", "push_front") /\ Exec(t, "Queue", "push_front", QueuePushFront(log[t], TheQueue, Arg(t)))

Queue_try_peek(t) == At(t, "Queue", "try_peek") /\ Exec(t, "Queue", "try_peek", QueueTryPeek(log[t], TheQueue))

Queue_peek(t) == At(t, "Queue", "peek") /\ Exec(t, "Queue", "peek", QueuePeek(log[t], TheQueue))

Queue_try_pop(t) == At(t, "Queue", "try_pop") /\ Exec(t, "Queue", "try_pop", QueueTryPop(log[t], TheQueue))

Queue_pop(t) == At(t, "Queue", "pop") /\ Exec(t, "Queue", "pop", QueuePop(log[t], TheQueue))

Queue_is_empty(t) == At(t, "Queue", "is_empty") /\ Exec(t, "Queue", "is_empty", QueueIsEmpty(log[t], TheQueue))

BoundedQueue_push(t) ==
    At(t, "BoundedQueue", "push") /\ Exec(t, "BoundedQueue", "push", BoundedQueuePush(log[t], TheBQueue, Arg(t)))

BoundedQueue_push_front(t) ==
    /\ At(t, "BoundedQueue", "push_front")
    /\ Exec(t, "BoundedQueue", "push_front", BoundedQueuePushFront(log[t], TheBQueue, Arg(t)))

BoundedQueue_try_peek(t) ==
    At(t, "BoundedQueue", "try_peek") /\ Exec(t, "BoundedQueue", "try_peek", BoundedQueueTryPeek(log[t], TheBQueue))

BoundedQueue_peek(t) ==
    At(t, "BoundedQueue", "peek") /\ Exec(t, "BoundedQueue", "peek", BoundedQueuePeek(log[t], TheBQueue))

BoundedQueue_try_pop(t) ==
    At(t, "BoundedQueue", "try_pop") /\ Exec(t, "BoundedQueue", "try_pop", BoundedQueueTryPop(log[t], TheBQueue))

BoundedQueue_pop(t) ==
    At(t, "BoundedQueue", "pop") /\ Exec(t, "BoundedQueue", "pop", BoundedQueuePop(log[t], TheBQueue))

BoundedQueue_is_empty(t) ==
    At(t, "BoundedQueue", "is_empty") /\ Exec(t, "BoundedQueue", "is_empty", BoundedQueueIsEmpty(log[t], TheBQueue))

BoundedQueue_is_full(t) ==
    At(t, "BoundedQueue", "is_full") /\ Exec(t, "BoundedQueue", "is_full", BoundedQueueIsFull(log[t], TheBQueue))

Stack_push(t) == At(t, "Stack", "push") /\ Exec(t, "Stack", "push", StackPush(log[t], TheStack, Arg(t)))

Stack_pop(t) == At(t, "Stack", "pop") /\ Exec(t, "Stack", "pop", StackPop(log[t], TheStack))

Semaphore_wait(t) ==
    At(t, "Semaphore", "wait") /\ Exec(t, "Semaphore", "wait", SemaphoreWait(log[t], TheSemaphore))

Semaphore_signal(t) ==
    At(t, "Semaphore", "signal") /\ Exec(t, "Semaphore", "signal", SemaphoreSignal(log[t], TheSemaphore))

\* The value the transaction's previous operation returned goes into the
\* BoundedQueue.
BoundedQueue_push_popped(t) ==
    /\ At(t, "BoundedQueue", "push_popped")
    /\ Exec(t, "BoundedQueue", "push_popped",
            BoundedQueuePush(log[t], TheBQueue, rets[t][Len(rets[t])]))

\* The thread panics inside its transaction function: the transaction is
\* dropped unpublished and the thread is gone.
Panic(t) ==
    /\ pc' = [pc EXCEPT ![t] = "panicked"]
    /\ log' = [log EXCEPT ![t] = EmptyLog]
    /\ prog' = [prog EXCEPT ![t] = <<>>]
    /\ ip' = [ip EXCEPT ![t] = 1]
    /\ rets' = [rets EXCEPT ![t] = <<>>]
    /\ fin' = [fin EXCEPT ![t] = TRUE]
    /\ UNCHANGED <<tvar, opCount, nextVal, pushed, popped, param, sem, heap, hist>>

\* Semaphore::signal at u32::MAX in a build with overflow checks: `n+1`
\* panics ("attempt to add with overflow").  Without the checks the sum
\* wraps, which is Semaphore_signal.
Semaphore_signal_overflow(t) ==
    /\ At(t, "Semaphore", "signal")
    /\ TVarRead(log[t], TheSemaphore.num).ret = MAX
    /\ Panic(t)

\* BoundedQueue::pop at remaining = usize::MAX in a build with overflow
\* checks: `x + 1` panics before the inner pop runs.  Without the checks the
\* sum wraps, which is BoundedQueue_pop.
BoundedQueue_pop_overflow(t) ==
    /\ At(t, "BoundedQueue", "pop")
    /\ TVarRead(log[t], TheBQueue.cap).ret = MAX
    /\ Panic(t)

\* The transaction function fails for a reason other than retry after some of
\* its operations ran: the transaction is abandoned, its log is dropped.
Abandon(t) ==
    /\ pc[t] = "run"
    /\ ip[t] > 1
    /\ pc' = [pc EXCEPT ![t] = "idle"]
    /\ log' = [log EXCEPT ![t] = EmptyLog]
    /\ prog' = [prog EXCEPT ![t] = <<>>]
    /\ ip' = [ip EXCEPT ![t] = 1]
    /\ rets' = [rets EXCEPT ![t] = <<>>]
    /\ UNCHANGED <<tvar, fin, opCount, nextVal, pushed, popped, param, sem, heap, hist>>

\* optionally(tx, |t| queue.push(t, v)) and optionally(tx, |t| queue.pop(t))
optionally_BoundedQueue_push(t) ==
    /\ At(t, "BoundedQueue", "optionally_push")
    /\ Exec(t, "BoundedQueue", "optionally_push",
            optionally(log[t], BoundedQueuePush(log[t], TheBQueue, Arg(t))))

optionally_BoundedQueue_pop(t) ==
    /\ At(t, "BoundedQueue", "optionally_pop")
    /\ Exec(t, "BoundedQueue", "optionally_pop",
            optionally(log[t], BoundedQueuePop(log[t], TheBQueue)))

\* ------------------------------------------------------ ArcList in memory
\* A Prim value is 0 for End and k > 0 for Elem(_, tail) whose tail is the
\* Arc numbered k.  heap.node[k] is that allocation: the Prim it holds and its
\* strong count (0 once released).  heap.prim is the Prim each ArcList owns,
\* heap.live the ArcLists not yet dropped, heap.cloned whether the clone was
\* taken, heap.dropping the ArcList whose
\* drop is running and heap.slf the loop variable of its destroy.
\* heap.depth is the deepest nesting of node releases in the last step and
\* heap.released the number of nodes released so far; heap.n is the number of
\* prepends of the test.
Handles == {"list", "clone"}

NewHeap(n) ==
    [node |-> <<>>, prim |-> [h \in Handles |-> 0], live |-> {"list"},
     cloned |-> FALSE, dropping |-> "", slf |-> 0, depth |-> 0, released |-> 0,
     n |-> n]

\* The drop glue of Prim: releasing an Elem drops its Arc, which at strong
\* count 1 releases the node and, nested inside, the Prim it holds.
RECURSIVE DropPrim(_, _, _)
DropPrim(h, p, d) ==
    IF p = 0 THEN h
    ELSE IF h.node[p].rc > 1
         THEN [h EXCEPT !.node[p].rc = @ - 1]
         ELSE DropPrim([h EXCEPT !.node[p].rc = 0,
                                 !.released = @ + 1,
                                 !.depth = IF d + 1 > @ THEN d + 1 ELSE @],
                       h.node[p].prim, d + 1)

\* Variant: the loop variable is released by the drop glue.
destroyByDropGlue(h) ==
    [DropPrim([h EXCEPT !.depth = 0], h.slf, 0) EXCEPT !.slf = 0, !.dropping = ""]

\* Variant: the loop releases the tail whoever else holds it.
destroyShared(h) ==
    IF h.slf = 0
    THEN [h EXCEPT !.dropping = "", !.depth = 0]
    ELSE [h EXCEPT !.node[h.slf].rc = 0,
                   !.slf = h.node[h.slf].prim,
                   !.released = @ + 1,
                   !.depth = 1]

\* Prim::destroy, one evaluation of the loop condition and body:
\* while let Elem(_, tail) = slf { slf = match Arc::try_unwrap(tail) {...} }
destroy(h) ==
    IF h.slf = 0
    THEN [h EXCEPT !.dropping = "", !.depth = 0]
    ELSE IF h.node[h.slf].rc = 1
         THEN [h EXCEPT !.node[h.slf].rc = 0,
                        !.slf = h.node[h.slf].prim,
                        !.released = @ + 1,
                        !.depth = 1]
         ELSE [h EXCEPT !.node[h.slf].rc = @ - 1,
                        !.slf = 0,
                        !.dropping = "",
                        !.depth = 0]

\* ArcList::prepend -> Prim::prepend: Elem(t, Arc::new(self))
ArcList_prepend ==
    /\ "list" \in heap.live
    /\ heap.dropping = ""
    /\ Len(heap.node) < heap.n
    /\ heap' = [heap EXCEPT !.node = Append(@, [prim |-> heap.prim["list"], rc |-> 1]),
                            !.prim["list"] = Len(heap.node) + 1]
    /\ UNCHANGED <<tvar, pc, prog, ip, log, rets, opCount, nextVal, pushed, popped,
                   fin, param, sem, hist>>

\* #[derive(Clone)]: the clone owns Elem(x.clone(), tail.clone()).
ArcList_clone ==
    /\ heap.live = {"list"}
    /\ heap.dropping = ""
    /\ ~heap.cloned
    /\ heap.prim["list"] # 0
    /\ heap' = [heap EXCEPT !.prim["clone"] = heap.prim["list"],
                            !.node[heap.prim["list"]].rc = @ + 1,
                            !.live = @ \cup {"clone"},
                            !.cloned = TRUE]
    /\ UNCHANGED <<tvar, pc, prog, ip, log, rets, opCount, nextVal, pushed, popped,
                   fin, param, sem, hist>>

\* Drop for ArcList: let slf = mem::replace(&mut self.prim, End);
ArcList_drop(o) ==
    /\ o \in heap.live
    /\ heap.dropping = ""
    /\ o = "list" => Len(heap.node) = heap.n
    /\ heap' = [heap EXCEPT !.slf = heap.prim[o],
                            !.prim[o] = 0,
                            !.live = @ \ {o},
                            !.dropping = o,
                            !.depth = 0]
    /\ UNCHANGED <<tvar, pc, prog, ip, log, rets, opCount, nextVal, pushed, popped,
                   fin, param, sem, hist>>

\* Drop for ArcList: slf.destroy();
Prim_destroy ==
    /\ heap.dropping # ""
    /\ heap' = destroy(heap)
    /\ UNCHANGED <<tvar, pc, prog, ip, log, rets, opCount, nextVal, pushed, popped,
                   fin, param, sem, hist>>

\* ------------------------------------- ArcList owned by two threads
\* The list and its clone are owned by two threads.  heap.walk is, for each
\* owner, where its drop is: "" (not running), "loop" (at the head of the loop
\* of destroy, slf the loop variable) or "err" (Arc::try_unwrap has handed
\* the tail back as Err(tail), slf the Arc it holds, not yet dropped).
\* heap.did holds the consuming operations the list has gone through.
Idle == [at |-> "", slf |-> 0]

NewShared(n) ==
    [walk |-> [o \in Handles |-> Idle], did |-> {}] @@ NewHeap(n)

NoWalk == \A o \in Handles : heap.walk[o].at = ""

\* The number of Arcs of the chain of the Prim p.
RECURSIVE Length(_, _)
Length(h, p) == IF p = 0 THEN 0 ELSE 1 + Length(h, h.node[p].prim)

\* The chain new_list of Prim::reverse after k calls of prepend, in nodes
\* allocated after the existing ones.
Fresh(h, k) ==
    [i \in 1..k |-> [prim |-> IF i = 1 THEN 0 ELSE Len(h.node) + i - 1, rc |-> 1]]

\* ArcList::prepend by the owner of the list, before it consumes or drops it.
Shared_prepend == NoWalk /\ heap.did = {} /\ ArcList_prepend

\* ArcList::reverse: self.map(|s| s.reverse()).  Prim::reverse builds
\* new_list from clones of the elements and gives back every reference it
\* took; when the closure returns, its argument s, the source chain, goes
\* out of scope and is dropped as a Prim.
ArcList_reverse ==
    /\ "list" \in heap.live
    /\ NoWalk
    /\ "reverse" \notin heap.did
    /\ LET s == heap.prim["list"]
           k == Length(heap, s)
           built == [heap EXCEPT !.node = @ \o Fresh(heap, k),
                                 !.prim["list"] = IF k = 0 THEN 0 ELSE Len(heap.node) + k,
                                 !.did = @ \cup {"reverse"},
                                 !.depth = 0]
       IN  heap' = DropPrim(built, s, 0)
    /\ UNCHANGED <<tvar, pc, prog, ip, log, rets, opCount, nextVal, pushed, popped,
                   fin, param, sem, hist>>

\* ArcList::split: Elem(x, xs) => Some((x, ArcList::from_prim((*xs).clone())));
\* the clone of the Prim inside xs takes a reference to the next node, then
\* xs goes out of scope.
ArcList_split ==
    /\ "list" \in heap.live
    /\ NoWalk
    /\ heap.prim["list"] # 0
    /\ LET xs == heap.prim["list"]
           next == heap.node[xs].prim
           cloned == [heap EXCEPT !.prim["list"] = next,
                                  !.did = @ \cup {"split"},
                                  !.depth = 0]
           held == IF next = 0 THEN cloned
                   ELSE [cloned EXCEPT !.node[next].rc = @ + 1]
       IN  heap' = DropPrim(held, xs, 0)
    /\ UNCHANGED <<tvar, pc, prog, ip, log, rets, opCount, nextVal, pushed, popped,
                   fin, param, sem, hist>>

\* Drop for ArcList, run by the owner o: mem::replace(&mut self.prim, End)
Drop_begin(o) ==
    /\ o \in heap.live
    /\ heap.walk[o].at = ""
    /\ heap' = [heap EXCEPT !.walk[o] = [at |-> "loop", slf |-> heap.prim[o]],
                            !.prim[o] = 0,
                            !.live = @ \ {o},
                            !.depth = 0]
    /\ UNCHANGED <<tvar, pc, prog, ip, log, rets, opCount, nextVal, pushed, popped,
                   fin, param, sem, hist>>

\* Prim::destroy, the loop condition and Arc::try_unwrap(tail): at strong
\* count 1 the node is released and its Prim becomes slf; otherwise the Arc
\* comes back as Err(tail).
Drop_try_unwrap(o) ==
    /\ heap.walk[o].at = "loop"
    /\ LET slf == heap.walk[o].slf
       IN  heap' = IF slf = 0
                   THEN [heap EXCEPT !.walk[o] = Idle, !.depth = 0]
                   ELSE IF heap.node[slf].rc = 1
                        THEN [heap EXCEPT !.node[slf].rc = 0,
                                          !.walk[o].slf = heap.node[slf].prim,
                                          !.released = @ + 1,
                                          !.depth = 1]
                        ELSE [heap EXCEPT !.walk[o].at = "err", !.depth = 0]
    /\ UNCHANGED <<tvar, pc, prog, ip, log, rets, opCount, nextVal, pushed, popped,
                   fin, param, sem, hist>>

\* Prim::destroy, Err(_) => return (): the Arc handed back is dropped.
Drop_err(o) ==
    /\ heap.walk[o].at = "err"
    /\ heap' = [DropPrim([heap EXCEPT !.depth = 0], heap.walk[o].slf, 0)
                    EXCEPT !.walk[o] = Idle]
    /\ UNCHANGED <<tvar, pc, prog, ip, log, rets, opCount, nextVal, pushed, popped,
                   fin, param, sem, hist>>

\* ------------------------------------------------------------ construction
\* Queue::new, BoundedQueue::new(cap), Stack::new; no transaction running.
InitCells(cap) ==
    [c \in Cells |->
        [val |-> IF c = "bq_cap" THEN cap ELSE IF c = "sem_num" THEN 0 ELSE End,
         ver |-> 0]]

\* Semaphore::new(n), beside the other objects.
SemHist(n) == [init |-> n, signals |-> 0, waits |-> 0]

NoHistory == [back |-> <<>>, reversed |-> <<>>]

NewObjects(cap, n) ==
    /\ tvar = [InitCells(cap) EXCEPT !["sem_num"].val = n]
    /\ sem = SemHist(n)
    /\ heap = NewHeap(0)
    /\ hist = NoHistory

\* param: `capacity` is the argument of BoundedQueue::new, `maxOps` bounds
\* opCount; `kind` and `pops` describe a threaded test, "" and 0 otherwise.
Param(capacity, maxOps, kind, pops) ==
    [capacity |-> capacity, maxOps |-> maxOps, kind |-> kind, pops |-> pops]

InitIdle ==
    /\ pc = [t \in Threads |-> "idle"]
    /\ prog = [t \in Threads |-> <<>>]
    /\ ip = [t \in Threads |-> 1]
    /\ log = [t \in Threads |-> EmptyLog]
    /\ rets = [t \in Threads |-> <<>>]
    /\ fin = [t \in Threads |-> TRUE]
    /\ opCount = 0
    /\ nextVal = [t \in Threads |-> t * Stride]
    /\ pushed = <<>>
    /\ popped = <<>>

\* ------------------------------------------ Queue used through push and pop
InitFifo == InitIdle /\ param = Param(0, FifoOps, "", 0) /\ NewObjects(0, 0)

NextFifo ==
    \E t \in Threads :
        \/ Begin(t)
        \/ Queue_push(t)
        \/ Queue_try_pop(t)
        \/ Queue_pop(t)
        \/ Commit(t)
        \/ Conflict(t)
        \/ Wake(t)

SpecFifo == InitFifo /\ [][NextFifo]_vars

\* ------------------------------------------------- every Queue operation
InitQueue == InitIdle /\ param = Param(0, QueueOps, "", 0) /\ NewObjects(0, 0)

NextQueue ==
    \E t \in Threads :
        \/ Begin(t)
        \/ Queue_push(t)
        \/ Queue_push_front(t)
        \/ Queue_try_peek(t)
        \/ Queue_peek(t)
        \/ Queue_try_pop(t)
        \/ Queue_pop(t)
        \/ Queue_is_empty(t)
        \/ Commit(t)
        \/ Conflict(t)
        \/ Wake(t)

SpecQueue == InitQueue /\ [][NextQueue]_vars

\* ------------------------------------------ every BoundedQueue operation
InitBounded ==
    /\ InitIdle
    /\ \E capacity \in 0..MaxCap :
        /\ param = Param(capacity, BoundedOps, "", 0)
        /\ NewObjects(capacity, 0)

NextBounded ==
    \E t \in Threads :
        \/ Begin(t)
        \/ BoundedQueue_push(t)
        \/ BoundedQueue_push_front(t)
        \/ BoundedQueue_try_peek(t)
        \/ BoundedQueue_peek(t)
        \/ BoundedQueue_try_pop(t)
        \/ BoundedQueue_pop(t)
        \/ BoundedQueue_is_empty(t)
        \/ BoundedQueue_is_full(t)
        \/ Commit(t)
        \/ Conflict(t)
        \/ Wake(t)

SpecBounded == InitBounded /\ [][NextBounded]_vars

\* --------------------------------- BoundedQueue at the top of the range
\* Transactions of any threads grouping push, pop and try_pop in any way, on
\* a BoundedQueue created with a capacity at most MaxCap below usize::MAX.
InitBoundedTop ==
    /\ InitIdle
    /\ \E k \in 0..MaxCap :
        /\ param = Param(MAX - k, BoundedOps, "", 0)
        /\ NewObjects(MAX - k, 0)

NextBoundedTop ==
    \E t \in Threads :
        \/ Begin(t)
        \/ BoundedQueue_push(t)
        \/ BoundedQueue_try_pop(t)
        \/ BoundedQueue_pop(t)
        \/ BoundedQueue_pop_overflow(t)
        \/ Commit(t)
        \/ Conflict(t)
        \/ Wake(t)

SpecBoundedTop == InitBoundedTop /\ [][NextBoundedTop]_vars

\* ------------------------------------------------------ the threaded tests
\* channel_threaded, bqueue_threaded, test_stack_threaded: every producer
\* thread commits one push of its own value (into a Queue also through
\* push_front); the consumer pops `pops` values inside one transaction.  The
\* BoundedQueue is created large enough to hold every value.
PushOp(kind, op, i) == <<[obj |-> kind, op |-> op, val |-> i]>>

PopFn(kind, n) == [i \in 1..n |-> [obj |-> kind, op |-> "pop", val |-> 0]]

InitThreaded(kinds) ==
    \E kind \in kinds, pops \in 1..NProd :
        /\ \E capacity \in (IF kind = "BoundedQueue" THEN NProd..(NProd + 1) ELSE {0}) :
            /\ param = Param(capacity, 0, kind, pops)
            /\ NewObjects(capacity, 0)
        /\ \E ops \in [Producers -> IF kind = "Stack" THEN {"push"} ELSE PushOps] :
            prog = [t \in Workers |->
                      IF t = Consumer THEN PopFn(kind, pops)
                      ELSE PushOp(kind, ops[t], t)]
        /\ pc = [t \in Workers |-> "run"]
        /\ ip = [t \in Workers |-> 1]
        /\ log = [t \in Workers |-> EmptyLog]
        /\ rets = [t \in Workers |-> <<>>]
        /\ fin = [t \in Workers |-> TRUE]
        /\ nextVal = [t \in Workers |-> 0]
        /\ opCount = 0
        /\ pushed = <<>>
        /\ popped = <<>>

InitTests == InitThreaded({"Queue", "BoundedQueue", "Stack"})

NextTests ==
    \E t \in Workers :
        \/ Queue_push(t)
        \/ Queue_push_front(t)
        \/ Queue_pop(t)
        \/ BoundedQueue_push(t)
        \/ BoundedQueue_push_front(t)
        \/ BoundedQueue_pop(t)
        \/ Stack_push(t)
        \/ Stack_pop(t)
        \/ Commit(t)
        \/ Conflict(t)
        \/ Wake(t)

SpecTests == InitTests /\ [][NextTests]_vars

\* channel_threaded alone, with its scheduling: every thread is scheduled
\* again and again, and a sleeping transaction is woken once a cell of its
\* read set has changed.
InitChannel == InitThreaded({"Queue"})

NextChannel ==
    \E t \in Workers :
        \/ Queue_push(t)
        \/ Queue_push_front(t)
        \/ Queue_pop(t)
        \/ Commit(t)
        \/ Conflict(t)
        \/ Wake(t)

\* The step thread t takes next, whichever it is.
ChannelThread(t) ==
    \/ Queue_push(t) \/ Queue_push_front(t) \/ Queue_pop(t)
    \/ Commit(t) \/ Conflict(t) \/ Wake(t)

SpecChannel ==
    /\ InitChannel
    /\ [][NextChannel]_vars
    /\ \A t \in Workers : WF_vars(ChannelThread(t))

\* The threads of a test, each about to run its transaction function.
InitWorkers(progs) ==
    /\ prog = progs
    /\ pc = [t \in DOMAIN progs |-> IF progs[t] = <<>> THEN "idle" ELSE "run"]
    /\ ip = [t \in DOMAIN progs |-> 1]
    /\ log = [t \in DOMAIN progs |-> EmptyLog]
    /\ rets = [t \in DOMAIN progs |-> <<>>]
    /\ fin = [t \in DOMAIN progs |-> TRUE]
    /\ nextVal = [t \in DOMAIN progs |-> 0]
    /\ opCount = 0
    /\ pushed = <<>>
    /\ popped = <<>>

\* ------------------------------- bqueue_threaded on a queue that is too short
\* bqueue_threaded with the capacity of bqueue_threaded_short_queue: every
\* producer commits one push, the consumer pops all the values inside ONE
\* transaction, and the queue cannot hold them all.
InitShortOne ==
    \E capacity \in 1..(NProd - 1) :
        /\ param = Param(capacity, 0, "BoundedQueue", NProd)
        /\ NewObjects(capacity, 0)
        /\ InitWorkers([t \in Workers |->
                IF t = Consumer THEN PopFn("BoundedQueue", NProd)
                ELSE PushOp("BoundedQueue", "push", t)])

NextShortOne ==
    \E t \in Workers :
        \/ BoundedQueue_push(t)
        \/ BoundedQueue_pop(t)
        \/ Commit(t)
        \/ Conflict(t)
        \/ Wake(t)

ShortOneThread(t) ==
    \/ BoundedQueue_push(t) \/ BoundedQueue_pop(t)
    \/ Commit(t) \/ Conflict(t) \/ Wake(t)

SpecShortOne ==
    /\ InitShortOne
    /\ [][NextShortOne]_vars
    /\ \A t \in Workers : WF_vars(ShortOneThread(t))

\* ------------------------------------------------ bqueue_threaded_short_queue
\* The queue is too short for the values: every producer commits one push,
\* the consumer pops the values one transaction at a time.
InitShort ==
    \E capacity \in 1..(NProd - 1) :
        /\ param = Param(capacity, 0, "BoundedQueue", NProd)
        /\ NewObjects(capacity, 0)
        /\ InitWorkers([t \in Workers |->
                IF t = Consumer THEN PopFn("BoundedQueue", 1)
                ELSE PushOp("BoundedQueue", "push", t)])

\* for _ in 0..N { atomically(pop) }: the consumer's next transaction.
ConsumerLoop ==
    /\ pc[Consumer] = "idle"
    /\ Len(popped) < param.pops
    /\ pc' = [pc EXCEPT ![Consumer] = "run"]
    /\ prog' = [prog EXCEPT ![Consumer] = PopFn(param.kind, 1)]
    /\ UNCHANGED <<tvar, ip, log, rets, opCount, nextVal, pushed, popped, fin, param, sem, heap, hist>>

NextShort ==
    \/ ConsumerLoop
    \/ \E t \in Workers :
        \/ BoundedQueue_push(t)
        \/ BoundedQueue_pop(t)
        \/ Commit(t)
        \/ Conflict(t)
        \/ Wake(t)

ShortThread(t) ==
    \/ BoundedQueue_push(t) \/ BoundedQueue_pop(t)
    \/ Commit(t) \/ Conflict(t) \/ Wake(t)
    \/ (t = Consumer /\ ConsumerLoop)

SpecShort ==
    /\ InitShort
    /\ [][NextShort]_vars
    /\ \A t \in Workers : WF_vars(ShortThread(t))

\* ----------------------------------------------------------------- benches
\* bench_stm_queue, bench_stm_bqueue_1, bench_stm_bqueue_200: one thread
\* pushes 0, 1, 2, ... and the other pops, each operation a transaction.
InitBench ==
    \E kind \in {"Queue", "BoundedQueue"} :
        \E capacity \in (IF kind = "BoundedQueue" THEN 1..MaxCap ELSE {0}) :
            /\ param = Param(capacity, 0, kind, BenchN)
            /\ NewObjects(capacity, 0)
            /\ InitWorkers([t \in Pair |->
                    IF t = Consumer THEN PopFn(kind, 1)
                    ELSE PushOp(kind, "push", 0)])

\* for i in 0..N { atomically(push(i)) }: the sender's next transaction.
SenderLoop ==
    /\ pc[Sender] = "idle"
    /\ Len(pushed) < BenchN
    /\ pc' = [pc EXCEPT ![Sender] = "run"]
    /\ prog' = [prog EXCEPT ![Sender] = PushOp(param.kind, "push", Len(pushed))]
    /\ UNCHANGED <<tvar, ip, log, rets, opCount, nextVal, pushed, popped, fin, param, sem, heap, hist>>

NextBench ==
    \/ ConsumerLoop
    \/ SenderLoop
    \/ \E t \in Pair :
        \/ Queue_push(t)
        \/ Queue_pop(t)
        \/ BoundedQueue_push(t)
        \/ BoundedQueue_pop(t)
        \/ Commit(t)
        \/ Conflict(t)
        \/ Wake(t)

SpecBench == InitBench /\ [][NextBench]_vars

\* ------------------------------------------- operations on several objects
\* Transactions that work on a Queue, a BoundedQueue and a Semaphore at once:
\* a spawned thread feeds the Queue with its value, moves a value from the
\* Queue to the BoundedQueue, or moves a value and then waits on the
\* Semaphore; the main thread signals the Semaphore.
Op(obj, op) == [obj |-> obj, op |-> op, val |-> 0]

MoveFn == <<Op("Queue", "pop"), Op("BoundedQueue", "push_popped")>>

ComposeFns(t) ==
    IF t = Consumer THEN { <<Op("Semaphore", "signal")>> }
    ELSE { PushOp("Queue", "push", t),
           MoveFn,
           MoveFn \o <<Op("Semaphore", "wait")>> }

InitCompose ==
    \E capacity \in 1..MaxCap :
        /\ param = Param(capacity, 0, "", 0)
        /\ NewObjects(capacity, 0)
        /\ \E fns \in [Workers -> UNION {ComposeFns(t) : t \in Workers}] :
            /\ \A t \in Workers : fns[t] \in ComposeFns(t)
            /\ InitWorkers(fns)

NextCompose ==
    \E t \in Workers :
        \/ Queue_push(t)
        \/ Queue_pop(t)
        \/ BoundedQueue_push_popped(t)
        \/ Semaphore_wait(t)
        \/ Semaphore_signal(t)
        \/ Commit(t)
        \/ Conflict(t)
        \/ Wake(t)
        \/ Abandon(t)

SpecCompose == InitCompose /\ [][NextCompose]_vars

\* --------------------------------------------- Stack used through push and pop
\* Transactions of any threads (clones of the handle) grouping push and pop
\* in any way.
InitStack == InitIdle /\ param = Param(0, StackOps, "", 0) /\ NewObjects(0, 0)

NextStack ==
    \E t \in Threads :
        \/ Begin(t)
        \/ Stack_push(t)
        \/ Stack_pop(t)
        \/ Commit(t)
        \/ Conflict(t)
        \/ Wake(t)

SpecStack == InitStack /\ [][NextStack]_vars

\* ------------------------------------- Semaphore used through wait and signal
\* Transactions of any threads grouping wait and signal in any way, on a
\* Semaphore created with any count.
InitSem ==
    \E n \in 0..MaxSem :
        InitIdle /\ param = Param(0, SemOps, "", 0) /\ NewObjects(0, n)

NextSem ==
    \E t \in Threads :
        \/ Begin(t)
        \/ Semaphore_wait(t)
        \/ Semaphore_signal(t)
        \/ Commit(t)
        \/ Conflict(t)
        \/ Wake(t)

SpecSem == InitSem /\ [][NextSem]_vars

\* ------------------------------------- Semaphore at the top of the range
\* As SpecSem, on a Semaphore created with a count at most MaxSem below
\* u32::MAX.
InitSemTop ==
    \E k \in 0..MaxSem :
        InitIdle /\ param = Param(0, SemOps, "", 0) /\ NewObjects(0, MAX - k)

NextSemTop ==
    \E t \in Threads :
        \/ Begin(t)
        \/ Semaphore_wait(t)
        \/ Semaphore_signal(t)
        \/ Semaphore_signal_overflow(t)
        \/ Commit(t)
        \/ Conflict(t)
        \/ Wake(t)

SpecSemTop == InitSemTop /\ [][NextSemTop]_vars

\* ------------------------------------------------ sem_threaded, sem_threaded2
\* The main thread commits N waits, one per transaction, on a Semaphore
\* created with count 0.  sem_threaded: one spawned thread commits N signals,
\* one per transaction.  sem_threaded2: N spawned threads commit one signal
\* each.
WaitFn == <<Op("Semaphore", "wait")>>

SignalFn == <<Op("Semaphore", "signal")>>

InitSemTests ==
    \E kind \in {"sem_threaded", "sem_threaded2"} :
        /\ param = Param(0, 0, kind, NProd)
        /\ NewObjects(0, 0)
        /\ InitWorkers([t \in Workers |->
                IF t = Consumer THEN WaitFn
                ELSE IF kind = "sem_threaded2" \/ t = Sender THEN SignalFn
                ELSE <<>>])

\* for i in 0..N { atomically(wait) }: the main thread's next transaction.
WaitLoop ==
    /\ pc[Consumer] = "idle"
    /\ sem.waits < param.pops
    /\ pc' = [pc EXCEPT ![Consumer] = "run"]
    /\ prog' = [prog EXCEPT ![Consumer] = WaitFn]
    /\ UNCHANGED <<tvar, ip, log, rets, opCount, nextVal, pushed, popped, fin, param, sem, heap, hist>>

\* sem_threaded: for i in 0..N { atomically(signal) }
SignalLoop ==
    /\ param.kind = "sem_threaded"
    /\ pc[Sender] = "idle"
    /\ sem.signals < param.pops
    /\ pc' = [pc EXCEPT ![Sender] = "run"]
    /\ prog' = [prog EXCEPT ![Sender] = SignalFn]
    /\ UNCHANGED <<tvar, ip, log, rets, opCount, nextVal, pushed, popped, fin, param, sem, heap, hist>>

NextSemTests ==
    \/ WaitLoop
    \/ SignalLoop
    \/ \E t \in Workers :
        \/ Semaphore_wait(t)
        \/ Semaphore_signal(t)
        \/ Commit(t)
        \/ Conflict(t)
        \/ Wake(t)

SemTestsThread(t) ==
    \/ Semaphore_wait(t) \/ Semaphore_signal(t)
    \/ Commit(t) \/ Conflict(t) \/ Wake(t)
    \/ (t = Consumer /\ WaitLoop)
    \/ (t = Sender /\ SignalLoop)

SpecSemTests ==
    /\ InitSemTests
    /\ [][NextSemTests]_vars
    /\ \A t \in Workers : WF_vars(SemTestsThread(t))

\* ----------------------------------------- optionally around BoundedQueue
\* Transactions of any threads grouping push, pop, optionally(push) and
\* optionally(pop) in any way.
InitOptional ==
    \E capacity \in 0..MaxCap :
        InitIdle /\ param = Param(capacity, OptOps, "", 0) /\ NewObjects(capacity, 0)

NextOptional ==
    \E t \in Threads :
        \/ Begin(t)
        \/ BoundedQueue_push(t)
        \/ BoundedQueue_pop(t)
        \/ optionally_BoundedQueue_push(t)
        \/ optionally_BoundedQueue_pop(t)
        \/ Commit(t)
        \/ Conflict(t)
        \/ Wake(t)

SpecOptional == InitOptional /\ [][NextOptional]_vars

\* ----------------------------------------------------------- test_long_list
\* test_long_list with N prepends: the list is built by sequential prepends
\* and dropped at the end of the test.  Beside it, at any moment of the
\* build, one clone of the list may be taken and dropped.
InitArcList ==
    /\ InitIdle /\ param = Param(0, 0, "", 0)
    /\ tvar = InitCells(0) /\ sem = SemHist(0)
    /\ \E n \in 0..MaxChain : heap = NewHeap(n)
    /\ hist = NoHistory

NextArcList ==
    \/ ArcList_prepend
    \/ ArcList_clone
    \/ \E o \in Handles : ArcList_drop(o)
    \/ Prim_destroy

SpecArcList == InitArcList /\ [][NextArcList]_vars /\ WF_vars(NextArcList)

\* ------------------------------------------------- every use of an ArcList
\* A list built by up to MaxChain prepends, cloned at some moment for a
\* second thread, may be reversed once and split; each thread drops the list
\* it owns, the two drops interleaving in any way.
InitShared ==
    /\ InitIdle /\ param = Param(0, 0, "", 0)
    /\ tvar = InitCells(0) /\ sem = SemHist(0)
    /\ \E n \in 0..MaxChain : heap = NewShared(n)
    /\ hist = NoHistory

NextShared ==
    \/ Shared_prepend
    \/ ArcList_clone
    \/ ArcList_reverse
    \/ ArcList_split
    \/ \E o \in Handles :
        \/ Drop_begin(o)
        \/ Drop_try_unwrap(o)
        \/ Drop_err(o)

SpecShared == InitShared /\ [][NextShared]_vars

\* ================================================================ properties
\* Reading a cell through a log, without the bookkeeping.
View(l, c) == TVarRead(l, c).ret

Rev(s) == [i \in 1..Len(s) |-> s[Len(s) + 1 - i]]

Range(s) == {s[i] : i \in 1..Len(s)}

\* The elements of a queue in pop order: front, then the back reversed; as a
\* transaction with log l sees them, and as committed.
Content(l, q) == View(l, q.read) \o Rev(View(l, q.write))

Committed(q) == tvar[q.read].val \o Rev(tvar[q.write].val)

\* This step is thread t running an operation of `obj` among `ops`.
Ran(t, obj, ops) ==
    /\ pc[t] = "run"
    /\ ip'[t] = ip[t] + 1 \/ pc'[t] = "blocked"
    /\ prog'[t][ip[t]].obj = obj
    /\ prog'[t][ip[t]].op \in ops

\* The value the operation of this step returned.
Returns(t) == rets'[t][Len(rets'[t])]

\* The operation i of t's transaction has run and is one of `ops`.
Did(t, i, ops) == i <= Len(rets[t]) /\ prog[t][i].op \in ops

NothingPublished == tvar' = tvar /\ pushed' = pushed /\ popped' = popped

\* ------------------------------------------------------------------------ C1
\* C1: on a Queue used only through push, pop and try_pop, the values the
\* committed pops returned are, in order, the first values of the committed
\* pushes, and the queue holds the values pushed and not yet popped, in push
\* order: whatever the grouping into transactions and the thread (handle).
FifoOrder ==
    /\ Len(popped) <= Len(pushed)
    /\ popped = SubSeq(pushed, 1, Len(popped))
    /\ Committed(TheQueue) = SubSeq(pushed, Len(popped) + 1, Len(pushed))

\* Pops of two threads' values, pushed in an order that is not the threads'.
FifoOrderWitness ==
    /\ Len(popped) >= 2
    /\ Committed(TheQueue) # <<>>
    /\ \E i \in 1..Len(popped) : \E j \in 1..Len(popped) :
        i < j /\ popped[i] > popped[j]

\* ------------------------------------------------------------------------ C2
\* C2: a BoundedQueue created with capacity C never holds more than C values
\* (#pushed - #popped <= C in every committed state), and a push or
\* push_front run by a transaction that sees C values queued suspends the
\* transaction: nothing is published and its view of the queue and of
\* `remaining` stays as it was.
FullPushBlocks ==
    \A t \in DOMAIN pc :
        (/\ Ran(t, "BoundedQueue", PushOps)
         /\ Valid(log[t])
         /\ Len(Content(log[t], TheBQueue.queue)) = param.capacity)
        => /\ pc'[t] = "blocked"
           /\ NothingPublished
           /\ log'[t].wr = log[t].wr

NeverOverCapacity ==
    /\ [](Len(pushed) - Len(popped) <= param.capacity)
    /\ [][FullPushBlocks]_vars

\* A push suspended on a queue that is full of committed values.
NeverOverCapacityWitness ==
    \E t \in DOMAIN pc :
        /\ pc[t] = "blocked"
        /\ prog[t][ip[t]].op \in PushOps
        /\ param.capacity >= 1
        /\ Len(Committed(TheBQueue.queue)) = param.capacity
        /\ Valid(log[t])

\* ------------------------------------------------------------------------ C3
\* C3: in every committed state of a BoundedQueue created with capacity C,
\* remaining + (number of values queued) = C and 0 <= remaining <= C.
CapacityInvariant ==
    /\ tvar["bq_cap"].val + Len(Committed(TheBQueue.queue)) = param.capacity
    /\ 0 <= tvar["bq_cap"].val
    /\ tvar["bq_cap"].val <= param.capacity

\* Values went in and out: the queue is full again after a committed pop.
CapacityInvariantWitness ==
    /\ param.capacity >= 1
    /\ tvar["bq_cap"].val = 0
    /\ Len(popped) >= 1

\* ------------------------------------------------------------------------ C4
\* C4: is_empty returns true exactly when the queue holds no element, that
\* is when the front list and the back list are both empty.
IsEmptyExact ==
    [][\A t \in DOMAIN pc :
        Ran(t, "Queue", {"is_empty"})
        => (Returns(t) <=> Content(log[t], TheQueue) = <<>>)]_vars

\* ------------------------------------------------------------------------ C5
\* C5: a pop run by a transaction that sees an empty queue suspends the
\* transaction and publishes nothing; the cells of the queue are in the read
\* set of the suspended transaction, which runs again only once a commit
\* has written one of the cells it read; a pop that returns returns the
\* first element of the queue, never an absent or invented value.
PopOnEmptyBlocks ==
    \A t \in DOMAIN pc :
        Ran(t, "Queue", {"pop"})
        => /\ NothingPublished
           /\ IF Content(log[t], TheQueue) = <<>>
              THEN /\ pc'[t] = "blocked"
                   /\ {"q_read", "q_write"} \subseteq DOMAIN log'[t].rd
              ELSE /\ pc'[t] = "run"
                   /\ Returns(t) = Head(Content(log[t], TheQueue))
                   /\ Content(log'[t], TheQueue) = Tail(Content(log[t], TheQueue))

WokenByCommit ==
    \A t \in DOMAIN pc :
        (pc[t] = "blocked" /\ pc'[t] # "blocked")
        => \E c \in DOMAIN log[t].rd : tvar[c].ver > log[t].rd[c].ver

PopNeverOnEmpty ==
    /\ [][PopOnEmptyBlocks]_vars
    /\ [][WokenByCommit]_vars
    /\ [](Range(popped) \subseteq Range(pushed))

\* A pop suspended on the empty queue, and a push committed since.
PopNeverOnEmptyWitness ==
    \E t \in DOMAIN pc :
        /\ pc[t] = "blocked"
        /\ prog[t][ip[t]].op = "pop"
        /\ Content(log[t], TheQueue) = <<>>
        /\ Committed(TheQueue) # <<>>

\* ------------------------------------------------------------------------ C6
\* C6: in the threaded test on a Queue, where the producers commit at least
\* as many values (through push or push_front) as the consumer's transaction
\* pops, the consumer's transaction eventually commits with all its values,
\* under fair scheduling.
BlockedPopsWoken == <>(pc[Consumer] = "idle" /\ Len(popped) = param.pops)

\* The consumer took what was there and sleeps, waiting for more.
BlockedPopsWokenWitness ==
    /\ param.kind = "Queue"
    /\ pc[Consumer] = "blocked"
    /\ Len(pushed) >= 1
    /\ Valid(log[Consumer])

\* ------------------------------------------------------------------------ C7
\* C7: try_pop never suspends the transaction: on an empty queue it returns
\* None and leaves the queue empty, otherwise it returns Some of the first
\* element, which is the value pop would return, and removes exactly it.
TryPopStep ==
    \A t \in DOMAIN pc :
        Ran(t, "Queue", {"try_pop"})
        => /\ pc'[t] = "run"
           /\ NothingPublished
           /\ IF Content(log[t], TheQueue) = <<>>
              THEN /\ Returns(t) = None
                   /\ Content(log'[t], TheQueue) = <<>>
              ELSE /\ Returns(t) = Some(Head(Content(log[t], TheQueue)))
                   /\ Returns(t) = Some(QueuePop(log[t], TheQueue).ret)
                   /\ Content(log'[t], TheQueue) = Tail(Content(log[t], TheQueue))

TryPopNeverBlocks == [][TryPopStep]_vars

\* One transaction got a value from one try_pop and None from another.
TryPopNeverBlocksWitness ==
    \E t \in DOMAIN pc :
        \E i \in 1..Len(rets[t]) : \E j \in 1..Len(rets[t]) :
            /\ Did(t, i, {"try_pop"}) /\ rets[t][i] # None
            /\ Did(t, j, {"try_pop"}) /\ rets[t][j] = None

\* ------------------------------------------------------------------------ C8
\* C8: after push_front(v) the next pop, try_pop, peek or try_peek returns
\* v, whatever the two lists held, and the elements queued before follow
\* in their previous order.
PushFrontStep ==
    \A t \in DOMAIN pc :
        Ran(t, "Queue", {"push_front"})
        => LET v == prog'[t][ip[t]].val
               before == Content(log[t], TheQueue)
               l == log'[t]
           IN  /\ pc'[t] = "run"
               /\ NothingPublished
               /\ Content(l, TheQueue) = <<v>> \o before
               /\ QueuePop(l, TheQueue).ret = v
               /\ QueueTryPop(l, TheQueue).ret = Some(v)
               /\ QueuePeek(l, TheQueue).ret = v
               /\ QueueTryPeek(l, TheQueue).ret = Some(v)
               /\ Content(QueuePop(l, TheQueue).log, TheQueue) = before

PushFrontIsNext == [][PushFrontStep]_vars

\* A pop right after a push_front returned its value, others staying queued.
PushFrontIsNextWitness ==
    \E t \in DOMAIN pc : \E i \in 1..Len(rets[t]) :
        /\ i > 1
        /\ Did(t, i - 1, {"push_front"})
        /\ Did(t, i, {"pop"})
        /\ rets[t][i] = prog[t][i - 1].val
        /\ i = Len(rets[t])
        /\ Content(log[t], TheQueue) # <<>>

\* ------------------------------------------------------------------------ C9
\* C9: peek and try_peek return the value the next pop would return and
\* leave the queue's content, in pop order, unchanged; the step publishes
\* nothing, and the commit of a transaction replaces the committed content
\* by the content the transaction saw, at once: a transaction that only
\* peeked leaves the committed content as it was.
PeekOps == {"peek", "try_peek"}

PeekStep ==
    \A t \in DOMAIN pc :
        Ran(t, "Queue", PeekOps)
        => LET before == Content(log[t], TheQueue)
               op == prog'[t][ip[t]].op
           IN  /\ NothingPublished
               /\ IF before = <<>>
                  THEN IF op = "peek"
                       THEN pc'[t] = "blocked"
                       ELSE /\ pc'[t] = "run"
                            /\ Returns(t) = None
                            /\ Content(log'[t], TheQueue) = <<>>
                  ELSE /\ pc'[t] = "run"
                       /\ Returns(t) = IF op = "peek" THEN Head(before)
                                       ELSE Some(Head(before))
                       /\ QueuePop(log[t], TheQueue).ret = Head(before)
                       /\ Content(log'[t], TheQueue) = before

PeekCommit ==
    \A t \in DOMAIN pc :
        (pc[t] = "run" /\ pc'[t] = "idle")
        => /\ Committed(TheQueue)' = Content(log[t], TheQueue)
           /\ (\A i \in 1..Len(prog[t]) : prog[t][i].op \in PeekOps)
                => Committed(TheQueue)' = Committed(TheQueue)

PeekLeavesContent == [][PeekStep]_vars /\ [][PeekCommit]_vars

\* A transaction that only peeked, at two queued values whose back list the
\* peek had to reverse, is about to commit.
PeekLeavesContentWitness ==
    \E t \in DOMAIN pc :
        /\ Returned(t)
        /\ Valid(log[t])
        /\ \A i \in 1..Len(prog[t]) : prog[t][i].op \in PeekOps
        /\ Len(Content(log[t], TheQueue)) >= 2
        /\ tvar["q_read"].val = End

\* ----------------------------------------------------------------------- C10
\* C10: in the threaded tests on a Queue, a BoundedQueue large enough and a
\* Stack, no value is popped twice, every value popped was pushed by a
\* committed push, and once the consumer has committed it holds as many
\* values as it popped: all the producers' values when it popped that many.
NoDuplicates(s) == \A i \in 1..Len(s) : \A j \in 1..Len(s) : s[i] = s[j] => i = j

NoLossNoDuplication ==
    /\ NoDuplicates(pushed)
    /\ NoDuplicates(popped)
    /\ Range(pushed) \subseteq Producers
    /\ Range(popped) \subseteq Range(pushed)
    /\ pc[Consumer] = "idle"
        => /\ Len(popped) = param.pops
           /\ param.pops = NProd => Range(popped) = Producers

\* The consumer has committed the pops of every producer's value.
NoLossNoDuplicationWitness ==
    /\ pc[Consumer] = "idle"
    /\ param.pops = NProd
    /\ param.kind = "BoundedQueue"
    /\ param.capacity = NProd

\* ----------------------------------------------------------------------- C11
\* C11: with a BoundedQueue of capacity less than N, N threads that each
\* push one value and one transaction that pops N values, the popping
\* transaction eventually commits, holding exactly the N values.
OneTransactionPopsAll ==
    <>(pc[Consumer] = "idle" /\ Len(popped) = NProd /\ Range(popped) = Producers)

\* C11 as the code has it: the popping transaction never commits.  It needs N
\* values queued at once and the queue never holds more than its capacity:
\* the queue fills up, and from then on the consumer and the producers left
\* over sleep for ever.
ShortQueueStarves ==
    /\ [](pc[Consumer] # "idle" /\ popped = <<>>)
    /\ <>[](/\ Len(pushed) = param.capacity
            /\ pc[Consumer] = "blocked"
            /\ \A t \in Producers : pc[t] \in {"idle", "blocked"})

\* The queue is full, and the consumer and a producer sleep on what they saw.
ShortQueueStarvesWitness ==
    /\ Len(Committed(TheBQueue.queue)) = param.capacity
    /\ pc[Consumer] = "blocked" /\ Valid(log[Consumer])
    /\ Len(rets[Consumer]) = param.capacity
    /\ \E t \in Producers : pc[t] = "blocked" /\ Valid(log[t])

\* ----------------------------------------------------------------------- C12
\* C12: in bqueue_threaded_short_queue (capacity C >= 1 smaller than the
\* number N of producers, one pop per transaction), under fair scheduling
\* every push and every pop eventually commits and the consumer ends with
\* exactly the N values; and in no reachable state are all the unfinished
\* threads asleep with nothing to wake them.
ShortDone ==
    /\ \A t \in Workers : pc[t] = "idle"
    /\ Len(pushed) = NProd
    /\ Len(popped) = NProd
    /\ Range(popped) = Producers

\* Asleep with nothing to wake it: no cell it read has changed.
Stuck(t) == pc[t] = "blocked" /\ Valid(log[t])

\* Between two transactions of its loop.
Looping(t) == t = Consumer /\ pc[t] = "idle" /\ Len(popped) < param.pops

BackpressureNoDeadlock ==
    /\ <>[]ShortDone
    /\ [](ShortDone \/ \E t \in Workers :
                \/ pc[t] = "run"
                \/ pc[t] = "blocked" /\ ~Stuck(t)
                \/ Looping(t))

\* A producer sleeps on the full queue after the consumer has taken values.
BackpressureNoDeadlockWitness ==
    /\ Len(popped) >= 1
    /\ Len(Committed(TheBQueue.queue)) = param.capacity
    /\ \E t \in Producers : Stuck(t)

\* ----------------------------------------------------------------------- C13
\* C13: with one thread committing push(i) for i = 0, 1, ..., one push per
\* transaction, and one thread committing one pop per transaction, the i-th
\* value popped is i: for a Queue and for a BoundedQueue of capacity 1 and
\* of larger capacity.
PipeOrder == \A i \in 1..Len(popped) : popped[i] = i - 1

\* Every value went through a queue that held two of them at a time.
PipeOrderWitness ==
    /\ Len(popped) = BenchN
    /\ param.kind = "BoundedQueue"
    /\ param.capacity = 2
    /\ pc[Consumer] = "idle"

\* ----------------------------------------------------------------------- C14
\* C14: with transactions that pop a value from one queue and push it into
\* another (some of them then waiting on a semaphore), in every committed
\* state every value fed is in exactly one of the two queues; the committed
\* cells change only by a transaction that ran to its end publishing all of
\* its writes at once, so a transaction that retried or was abandoned after
\* some of its operations ran leaves nothing of them visible.
Occurrences(s, v) == Cardinality({i \in 1..Len(s) : s[i] = v})

InOneQueue ==
    LET both == Committed(TheQueue) \o Committed(TheBQueue.queue)
    IN  /\ Len(both) = Len(pushed)
        /\ \A i \in 1..Len(pushed) : Occurrences(both, pushed[i]) = 1
        /\ Range(Committed(TheBQueue.queue)) = Range(popped)
        /\ tvar["bq_cap"].val + Len(popped) = param.capacity
        /\ tvar["sem_num"].val = sem.signals - sem.waits

PublishedAtOnce ==
    tvar' # tvar
    => \E t \in DOMAIN pc :
        /\ Returned(t) /\ pc'[t] = "idle"
        /\ \A c \in Cells :
            IF c \in DOMAIN log[t].wr
            THEN tvar'[c].val = log[t].wr[c]
            ELSE tvar'[c] = tvar[c]

AllOrNothing == []InOneQueue /\ [][PublishedAtOnce]_vars

\* A transaction sleeps on the semaphore with the value it moved in its log:
\* the value is still in the first queue and not in the second.
AllOrNothingWitness ==
    \E t \in DOMAIN pc :
        /\ Stuck(t)
        /\ prog[t][ip[t]].op = "wait"
        /\ "bq_write" \in DOMAIN log[t].wr
        /\ Committed(TheQueue) # <<>>
        /\ Committed(TheBQueue.queue) = <<>>

\* ----------------------------------------------------------------------- C15
\* C15: the Stack is LIFO.  A push puts its value on top of what the
\* transaction sees, a pop returns and removes the top, and a pop that sees
\* the empty stack suspends the transaction; the committed stack holds the
\* values pushed and not yet popped, the most recently pushed on top, so a
\* pop returns the most recently pushed value not yet popped, however the
\* operations are grouped into transactions and whichever thread runs them.
StackView(l) == View(l, TheStack.stack)

Unpopped == SelectSeq(pushed, LAMBDA v : v \notin Range(popped))

LifoStep ==
    \A t \in DOMAIN pc :
        /\ Ran(t, "Stack", {"push"})
            => /\ pc'[t] = "run"
               /\ StackView(log'[t]) = <<prog'[t][ip[t]].val>> \o StackView(log[t])
        /\ Ran(t, "Stack", {"pop"})
            => IF StackView(log[t]) = <<>>
               THEN pc'[t] = "blocked" /\ NothingPublished
               ELSE /\ pc'[t] = "run"
                    /\ Returns(t) = Head(StackView(log[t]))
                    /\ StackView(log'[t]) = Tail(StackView(log[t]))

StackLifo ==
    /\ [](tvar["st_stack"].val = Rev(Unpopped))
    /\ [][LifoStep]_vars

\* Values of two threads came off in the reverse of the order they went on,
\* others staying on the stack.
StackLifoWitness ==
    /\ Len(popped) >= 2
    /\ tvar["st_stack"].val # <<>>
    /\ \E i \in 1..Len(pushed) : \E j \in 1..Len(pushed) :
        /\ i < j
        /\ pushed[i] \div Stride # pushed[j] \div Stride
        /\ \E a \in 1..Len(popped) : \E b \in 1..Len(popped) :
            a < b /\ popped[a] = pushed[j] /\ popped[b] = pushed[i]

\* ----------------------------------------------------------------------- C16
\* C16: the committed counter of a Semaphore is never negative; a wait that
\* sees the count zero suspends the transaction, which publishes nothing and
\* buffers no decrement, and a wait that sees a token leaves a count that is
\* not negative; the committed waits never outnumber the initial count plus
\* the committed signals.
Count(l) == View(l, TheSemaphore.num)

WaitStep ==
    \A t \in DOMAIN pc :
        Ran(t, "Semaphore", {"wait"})
        => /\ NothingPublished
           /\ IF Count(log[t]) = 0
              THEN pc'[t] = "blocked" /\ log'[t].wr = log[t].wr
              ELSE pc'[t] = "run" /\ Count(log'[t]) = Count(log[t]) - 1
           /\ Count(log'[t]) >= 0

CounterNeverNegative ==
    /\ [](tvar["sem_num"].val >= 0)
    /\ [](tvar["sem_num"].val = sem.init + sem.signals - sem.waits)
    /\ [](sem.waits <= sem.init + sem.signals)
    /\ [][WaitStep]_vars

\* Every token has been taken and a wait sleeps on the count zero.
CounterNeverNegativeWitness ==
    /\ sem.waits >= 1
    /\ tvar["sem_num"].val = 0
    /\ \E t \in DOMAIN pc : Stuck(t) /\ prog[t][ip[t]].op = "wait"

\* ----------------------------------------------------------------------- C17
\* C17: a signal immediately followed by a wait in one transaction: the wait
\* does not suspend the transaction, the transaction then sees the count it
\* saw before the signal, its commit leaves the committed counter as it was
\* (0 when it started at count 0), and the committed counter only ever
\* changes to the final count of a transaction that ran to its end: the
\* count in between is never published.
SignalWait == <<Op("Semaphore", "signal"), Op("Semaphore", "wait")>>

SignalWaitStep ==
    \A t \in DOMAIN pc :
        /\ (Ran(t, "Semaphore", {"wait"}) /\ ip[t] > 1 /\ prog[t][ip[t] - 1].op = "signal")
            => /\ pc'[t] = "run"
               /\ NothingPublished
               /\ ip[t] = 2 => Count(log'[t]) = log'[t].rd["sem_num"].val
        /\ (pc[t] = "run" /\ pc'[t] = "idle" /\ prog[t] = SignalWait)
            => /\ tvar'["sem_num"].val = tvar["sem_num"].val
               /\ sem'.signals = sem.signals + 1
               /\ sem'.waits = sem.waits + 1
        /\ Ran(t, "Semaphore", {"signal"})
            => tvar' = tvar /\ pc'[t] = "run"

CountPublishedAtOnce ==
    tvar'["sem_num"] # tvar["sem_num"]
    => \E t \in DOMAIN pc :
        /\ Returned(t) /\ pc'[t] = "idle"
        /\ tvar'["sem_num"].val = Count(log[t])

SignalThenWait == [][SignalWaitStep]_vars /\ [][CountPublishedAtOnce]_vars

\* A transaction of a signal and a wait, started at count 0, is about to commit.
SignalThenWaitWitness ==
    \E t \in DOMAIN pc :
        /\ Returned(t) /\ Valid(log[t])
        /\ prog[t] = SignalWait
        /\ sem.init = 0
        /\ tvar["sem_num"].val = 0
        /\ log[t].rd["sem_num"].val = 0

\* ----------------------------------------------------------------------- C18
\* C18: in sem_threaded (one thread commits the N signals) and sem_threaded2
\* (N threads commit one signal each), under fair scheduling, a wait asleep
\* at count 0 eventually commits, the N waits of the main thread, one per
\* transaction, all commit, and the counter ends at its initial value.
SemTestsDone ==
    /\ \A t \in Workers : pc[t] = "idle"
    /\ sem.waits = NProd
    /\ sem.signals = NProd
    /\ tvar["sem_num"].val = sem.init

SemaphoreWakeUp ==
    /\ <>[]SemTestsDone
    /\ \A n \in 0..NProd :
        (pc[Consumer] = "blocked" /\ sem.waits = n) ~> (sem.waits > n)

\* The main thread took a token and sleeps at count 0 waiting for the next.
SemaphoreWakeUpWitness ==
    /\ Stuck(Consumer)
    /\ sem.waits >= 1
    /\ tvar["sem_num"].val = 0

\* ----------------------------------------------------------------------- C19
\* C19: optionally(tx, f) never suspends the transaction.  When f completes
\* with v it returns Some(v) and leaves what f leaves; when f signals retry
\* it returns None and every write of f is discarded: the transaction's
\* writes, hence its view of `remaining` and of the content, are as before,
\* the rest of the transaction runs, and what it commits keeps
\* remaining + #queued = capacity.
OptionalStep ==
    \A t \in DOMAIN pc :
        Ran(t, "BoundedQueue", {"optionally_push", "optionally_pop"})
        => LET op == prog'[t][ip[t]]
               f == IF op.op = "optionally_push"
                    THEN BoundedQueuePush(log[t], TheBQueue, op.val)
                    ELSE BoundedQueuePop(log[t], TheBQueue)
           IN  /\ pc'[t] = "run"
               /\ NothingPublished
               /\ IF f.retry
                  THEN /\ Returns(t) = None
                       /\ log'[t].wr = log[t].wr
                       /\ Count(log'[t]) = Count(log[t])
                       /\ View(log'[t], "bq_cap") = View(log[t], "bq_cap")
                       /\ Content(log'[t], TheBQueue.queue) = Content(log[t], TheBQueue.queue)
                  ELSE /\ Returns(t) = Some(f.ret)
                       /\ log'[t] = f.log

OptionallyNeverBlocks ==
    /\ [][OptionalStep]_vars
    /\ [](tvar["bq_cap"].val + Len(Committed(TheBQueue.queue)) = param.capacity)
    /\ [](Len(pushed) - Len(popped) = Len(Committed(TheBQueue.queue)))

\* A transaction got None from optionally around a pop on the empty queue and
\* from optionally around a push on the full queue, and is about to commit.
OptionallyNeverBlocksWitness ==
    \E t \in DOMAIN pc :
        /\ Returned(t) /\ Valid(log[t])
        /\ \E i \in 1..Len(rets[t]) : Did(t, i, {"optionally_pop"}) /\ rets[t][i] = None
        /\ \E i \in 1..Len(rets[t]) : Did(t, i, {"optionally_push"}) /\ rets[t][i] = None
        /\ param.capacity >= 1

\* ----------------------------------------------------------------------- C20
\* C20: dropping a list built by sequential prepends releases its nodes
\* iteratively.  Every step of the loop of destroy that finds the tail
\* unshared releases exactly that one node, no node release is ever nested
\* in another one whatever the length of the chain, and the teardown
\* completes: once the list (and its clone, if one was taken) are dropped,
\* every node of the chain has been released.
Released(h) == {k \in 1..Len(h.node) : h.node[k].rc = 0}

DestroyStep ==
    heap.dropping # "" /\ heap' # heap
    => /\ heap.slf # 0 /\ heap.node[heap.slf].rc = 1
          => /\ Released(heap') = Released(heap) \cup {heap.slf}
             /\ heap'.released = heap.released + 1
             /\ heap'.dropping = heap.dropping
       /\ Cardinality(Released(heap')) <= Cardinality(Released(heap)) + 1
       /\ heap'.released = Cardinality(Released(heap'))
       /\ heap'.depth <= 1

TornDown ==
    /\ heap.live = {}
    /\ heap.dropping = ""
    /\ Released(heap) = 1..heap.n

DropIsIterative ==
    /\ [][DestroyStep]_vars
    /\ [](heap.depth <= 1)
    /\ <>TornDown

\* The list of the longest chain, never cloned, has been torn down: one node
\* was released in each of its MaxChain loop steps.
DropIsIterativeWitness ==
    /\ heap.n = MaxChain
    /\ ~heap.cloned
    /\ heap.live = {}
    /\ heap.dropping = ""
    /\ heap.released = MaxChain
    /\ \A k \in 1..MaxChain : heap.node[k].rc = 0

\* ----------------------------------------------------------------------- C21
\* C21: destroy stops at a shared tail.  A loop step frees the node it looks
\* at only when the strong count is 1, and when the count is higher it gives
\* its reference back and ends the walk at once.  No node that a live list
\* reaches is ever freed, a destroy step leaves the chain of every live list
\* as it was, and whenever no drop is running every node that no live list
\* reaches has been freed.
RECURSIVE Chain(_, _)
Chain(h, p) == IF p = 0 THEN <<>> ELSE <<p>> \o Chain(h, h.node[p].prim)

Reached(h) ==
    {k \in 1..Len(h.node) :
        \E o \in h.live : \E i \in 1..Len(Chain(h, h.prim[o])) : Chain(h, h.prim[o])[i] = k}

SharedTailStep ==
    heap.dropping # "" /\ heap' # heap
    => /\ \A k \in Released(heap') \ Released(heap) :
            k = heap.slf /\ heap.node[k].rc = 1
       /\ heap.slf # 0 /\ heap.node[heap.slf].rc > 1
            => /\ heap'.dropping = ""
               /\ Released(heap') = Released(heap)
               /\ heap'.node[heap.slf].rc = heap.node[heap.slf].rc - 1
       /\ \A o \in heap.live :
            /\ o \in heap'.live
            /\ Chain(heap', heap'.prim[o]) = Chain(heap, heap.prim[o])

DestroySparesShared ==
    /\ [][SharedTailStep]_vars
    /\ [](Reached(heap) \cap Released(heap) = {})
    /\ [](heap.dropping = "" => Released(heap) = (1..Len(heap.node)) \ Reached(heap))

\* The list was dropped while its clone lived: the walk freed the nodes
\* prepended after the clone was taken and stopped at the shared one, which
\* the clone still reaches.
DestroySparesSharedWitness ==
    /\ heap.live = {"clone"}
    /\ heap.dropping = ""
    /\ heap.released >= 2
    /\ Len(Chain(heap, heap.prim["clone"])) >= 2
    /\ \A i \in 1..Len(Chain(heap, heap.prim["clone"])) :
            heap.node[Chain(heap, heap.prim["clone"])[i]].rc = 1

\* ----------------------------------------------------------------------- C22
\* C22: a pop of the BoundedQueue that finds the queue empty
\* signals retry without having written `remaining`: the write buffer of the
\* transaction is as it was before the pop.
PopStepWritesNothingOnRetry ==
    \A t \in DOMAIN pc :
        Ran(t, "BoundedQueue", {"pop"}) /\ pc'[t] = "blocked"
        => log'[t].wr = log[t].wr

PopCountsAfterValue == [][PopStepWritesNothingOnRetry]_vars

\* What pop does: it writes `remaining` + 1 into the write buffer of the
\* transaction BEFORE the inner pop runs, also when the queue is empty and
\* the pop signals retry.  That write is never published: the suspended
\* transaction publishes nothing and starts again from an empty log, so in
\* every committed state remaining + queued = capacity.
PopStep ==
    \A t \in DOMAIN pc :
        Ran(t, "BoundedQueue", {"pop"})
        => /\ View(log'[t], TheBQueue.cap) = View(log[t], TheBQueue.cap) + 1
           /\ TheBQueue.cap \in DOMAIN log'[t].wr
           /\ pc'[t] = "blocked" <=> Content(log[t], TheBQueue.queue) = <<>>
           /\ NothingPublished

SuspendedRestarts ==
    \A t \in DOMAIN pc :
        pc[t] = "blocked" /\ pc'[t] # "blocked"
        => log'[t] = EmptyLog /\ NothingPublished

PopCountsBeforeValue ==
    /\ [][PopStep]_vars
    /\ [][SuspendedRestarts]_vars
    /\ [](tvar[TheBQueue.cap].val + Len(Committed(TheBQueue.queue)) = param.capacity)

\* A pop sleeps on the empty queue, `remaining` + 1 in its write buffer.
PopCountsBeforeValueWitness ==
    \E t \in DOMAIN pc :
        /\ pc[t] = "blocked"
        /\ prog[t][ip[t]].op = "pop"
        /\ Committed(TheBQueue.queue) = <<>>
        /\ TheBQueue.cap \in DOMAIN log[t].wr
        /\ log[t].wr[TheBQueue.cap] = param.capacity + 1

\* ----------------------------------------------------------------------- C23
\* C23: on a BoundedQueue, try_pop never suspends; when it returns a value
\* the transaction sees `remaining` one higher and the content without its
\* first element, and when it returns None it sees both as before.  peek and
\* try_peek leave `remaining` and the content as they were, and on every
\* non-empty queue, a full one included, they return the first element
\* without suspending.
BoundedTryPopStep ==
    \A t \in DOMAIN pc :
        Ran(t, "BoundedQueue", {"try_pop"})
        => LET before == Content(log[t], TheBQueue.queue)
               after == Content(log'[t], TheBQueue.queue)
               rem == View(log[t], TheBQueue.cap)
           IN  /\ pc'[t] = "run"
               /\ NothingPublished
               /\ IF before = <<>>
                  THEN /\ Returns(t) = None
                       /\ View(log'[t], TheBQueue.cap) = rem
                       /\ after = <<>>
                  ELSE /\ Returns(t) = Some(Head(before))
                       /\ View(log'[t], TheBQueue.cap) = rem + 1
                       /\ after = Tail(before)

BoundedPeekStep ==
    \A t \in DOMAIN pc :
        Ran(t, "BoundedQueue", PeekOps)
        => LET before == Content(log[t], TheBQueue.queue)
               op == prog'[t][ip[t]].op
           IN  /\ NothingPublished
               /\ View(log'[t], TheBQueue.cap) = View(log[t], TheBQueue.cap)
               /\ Content(log'[t], TheBQueue.queue) = before
               /\ IF before # <<>>
                  THEN /\ pc'[t] = "run"
                       /\ Returns(t) = IF op = "peek" THEN Head(before)
                                       ELSE Some(Head(before))
                  ELSE IF op = "peek" THEN pc'[t] = "blocked"
                       ELSE pc'[t] = "run" /\ Returns(t) = None

TryPopAndPeekBookkeeping ==
    /\ [][BoundedTryPopStep]_vars
    /\ [][BoundedPeekStep]_vars
    /\ [](tvar[TheBQueue.cap].val \in 0..param.capacity)

\* On a full queue a transaction has peeked the first element and then taken
\* it with try_pop.
TryPopAndPeekBookkeepingWitness ==
    \E t \in DOMAIN pc :
        /\ param.capacity >= 1
        /\ tvar[TheBQueue.cap].val = 0
        /\ Did(t, 1, PeekOps)
        /\ Did(t, 2, {"try_pop"})
        /\ rets[t][2] # None
        /\ View(log[t], TheBQueue.cap) = 1

\* ----------------------------------------------------------------------- C24
\* C24: the Queue refines a sequence.  With the content read as front
\* followed by the reverse of back, every operation changes the content the
\* transaction sees as the sequence operation does: push appends, push_front
\* inserts at the start, pop and try_pop remove and return the first
\* element, peek and try_peek return it and change nothing, also in the step
\* where the reversed back list becomes the front list; and a commit makes
\* the content the transaction saw the committed content.
AbstractStep ==
    \A t \in DOMAIN pc :
        Ran(t, "Queue", {"push", "push_front", "pop", "try_pop", "peek", "try_peek"})
        => LET s == Content(log[t], TheQueue)
               s2 == Content(log'[t], TheQueue)
               op == prog'[t][ip[t]]
           IN  /\ NothingPublished
               /\ CASE op.op = "push" ->
                        pc'[t] = "run" /\ s2 = Append(s, op.val)
                    [] op.op = "push_front" ->
                        pc'[t] = "run" /\ s2 = <<op.val>> \o s
                    [] op.op = "pop" ->
                        IF s = <<>> THEN pc'[t] = "blocked" /\ s2 = <<>>
                        ELSE pc'[t] = "run" /\ Returns(t) = Head(s) /\ s2 = Tail(s)
                    [] op.op = "try_pop" ->
                        /\ pc'[t] = "run"
                        /\ IF s = <<>> THEN Returns(t) = None /\ s2 = <<>>
                           ELSE Returns(t) = Some(Head(s)) /\ s2 = Tail(s)
                    [] op.op = "peek" ->
                        /\ s2 = s
                        /\ IF s = <<>> THEN pc'[t] = "blocked"
                           ELSE pc'[t] = "run" /\ Returns(t) = Head(s)
                    [] op.op = "try_peek" ->
                        /\ pc'[t] = "run" /\ s2 = s
                        /\ Returns(t) = IF s = <<>> THEN None ELSE Some(Head(s))

AbstractCommit ==
    \A t \in DOMAIN pc :
        Returned(t) /\ pc'[t] = "idle"
        => Committed(TheQueue)' = Content(log[t], TheQueue)

QueueRefinesSequence == [][AbstractStep]_vars /\ [][AbstractCommit]_vars

\* A pop found the front list empty and two values in the back list: it
\* returned the one pushed first and left the other in the front list.
QueueRefinesSequenceWitness ==
    \E t \in DOMAIN pc :
        /\ Did(t, 1, {"push"}) /\ Did(t, 2, {"push"}) /\ Did(t, 3, {"pop"})
        /\ tvar[TheQueue.read].val = End /\ tvar[TheQueue.write].val = End
        /\ rets[t][3] = prog[t][1].val
        /\ View(log[t], TheQueue.read) = <<prog[t][2].val>>
        /\ View(log[t], TheQueue.write) = End

\* ----------------------------------------------------------------------- C25
\* C25: each element is reversed exactly once.  Over the transactions that
\* commit, no element goes through the loop of reverse twice; only elements
\* inserted by push do; such an element has gone through it exactly once as
\* soon as it has left the back list, hence before a pop removes it, and not
\* at all while it is in the back list; peek, try_peek and push_front in
\* between do not reverse it again.  So the elements reversed are never more
\* than the elements pushed.
CountIn(s, v) == Cardinality({i \in 1..Len(s) : s[i] = v})

\* The reversals committed so far and those of the running transaction of t.
ReversedWith(t) == hist.reversed \o log[t].rev

SignalStep ==
    \A t \in DOMAIN pc :
        /\ pc'[t] # "panicked"
        /\ Ran(t, "Semaphore", {"signal"})
            => /\ pc'[t] = "run"
               /\ IsSucc(Count(log[t]), Count(log'[t]))

SignalAddsOne == [][SignalStep]_vars

\* ----------------------------------------------------------------------- C27
\* C27: pop and try_pop never overflow the counter, whatever the capacity up
\* to usize::MAX: no operation fails, a pop on an empty queue suspends the
\* transaction, and the `remaining` + 1 that pop and try_pop compute is
\* `remaining` plus one as a number.
PopIncrementStep ==
    \A t \in DOMAIN pc :
        /\ pc'[t] # "panicked"
        /\ Ran(t, "BoundedQueue", {"pop"})
            => /\ IsSucc(View(log[t], TheBQueue.cap), View(log'[t], TheBQueue.cap))
               /\ Content(log[t], TheBQueue.queue) = <<>> => pc'[t] = "blocked"
        /\ Ran(t, "BoundedQueue", {"try_pop"}) /\ Returns(t) # None
            => IsSucc(View(log[t], TheBQueue.cap), View(log'[t], TheBQueue.cap))

PopNeverOverflows == [][PopIncrementStep]_vars

\* The part of C27 about try_pop alone: it increments only after a value was
\* removed, when `remaining` is below the capacity.
TryPopIncrementStep ==
    \A t \in DOMAIN pc :
        Ran(t, "BoundedQueue", {"try_pop"}) /\ Returns(t) # None
        => IsSucc(View(log[t], TheBQueue.cap), View(log'[t], TheBQueue.cap))

TryPopNeverOverflows == [][TryPopIncrementStep]_vars

\* ----------------------------------------------------------------------- C28
\* C28: every release of list nodes is iterative: in the drop of a list, in
\* ArcList::reverse (the source chain), in ArcList::split (the node taken
\* off) and in the drops of two lists that share a tail and are dropped by
\* two threads at once, no node is released nested inside the release of
\* another, however long the chain is.
EveryReleaseIterative == heap.depth <= 1

\* The same, for ArcList::split and for drops that do not overlap: only a
\* reverse, or a drop that dropped an Err(tail) after the other owner had
\* given its reference up, nests releases.
NestedRelease ==
    heap'.released > heap.released /\ heap'.depth > 1
    => \/ "reverse" \in heap'.did /\ "reverse" \notin heap.did
       \/ \E o \in Handles : heap.walk[o].at = "err" /\ heap'.walk[o].at = ""

OnlyReverseAndRaceNest == [][NestedRelease]_vars

\* The nesting reaches the length of the longest chain.
DepthBelowLength == heap.depth < MaxChain

====
